---- MODULE Spec2Model ----
(***************************************************************************)
(* Model of buildProfilerPlugin (src/BuildProfilerPlugin.ts): the closure  *)
(* state of the plugin and its four hooks buildStart, transform,           *)
(* moduleParsed and closeBundle.                                           *)
(*                                                                         *)
(* Strings are sequences of tokens.  A token is one of the characters the  *)
(* code splits on ("/", "\\", "?") or a maximal run of other characters    *)
(* (a path segment such as "node_modules" or "a.js").  Timestamps and      *)
(* durations are integer milliseconds.                                     *)
(***************************************************************************)
EXTENDS Integers, Sequences, FiniteSets, TLC

VARIABLES
    pathSep,               \* path.sep of the platform the build runs on
    clock,                 \* last value returned by performance.now()
    moduleTransformTimes,  \* Map<string, number>: key -> duration
    slowModules,           \* Array<{id, time}>
    startTimes,            \* Map<string, number>: key -> start timestamp
    processedIds,          \* Set<string>
    totalModules,
    processedModules,
    buildStartTime,
    last,                  \* the hook invocation that produced this state:
                           \* its arguments, what it returned and whether
                           \* its catch block ran
    out                    \* what that invocation wrote to the console

registry == <<moduleTransformTimes, slowModules, startTimes, processedIds,
              totalModules, processedModules, buildStartTime>>

vars == <<pathSep, clock, moduleTransformTimes, slowModules, startTimes,
          processedIds, totalModules, processedModules, buildStartTime,
          last, out>>

----------------------------------------------------------------------------
(* Program constants *)

SlowThreshold == 200
ProgressCadence == 100
TopN == 10

\* the label '项目源码' of closeBundle's fallback bucket
ProjectSourceLabel == <<"project-source">>

----------------------------------------------------------------------------
(* Bounds of the model *)

MaxProcessed == 3
MaxProgressProcessed == 101
MaxTopProcessed == 11

----------------------------------------------------------------------------
(* Inputs *)

SrcC      == <<"/", "src", "/", "c.ts">>
SrcCQuery == <<"/", "src", "/", "c.ts", "?", "v=1">>
FooA      == <<"/", "node_modules", "/", "foo", "/", "a.js">>
FooAWin   == <<"\\", "node_modules", "\\", "foo", "\\", "a.js">>

RawIds == {SrcC, SrcCQuery, FooAWin}
Times == {0, 50, 250, 500}

ProgressIds == {SrcC, FooA}
ProgressTimes == {10, 20}

TopIds == {SrcC}
TopTimes == {250 * k : k \in 1..23}
TopBuildStarts == {250}
TopDurations == {250, 500}

FailIds == {SrcC, FooAWin}
FailTimes == {0, 50, 300}

----------------------------------------------------------------------------
(* String.prototype.split / Array.prototype.join on token sequences *)

MatchAt(s, d, i) ==
    /\ i + Len(d) - 1 <= Len(s)
    /\ \A j \in 1..Len(d) : s[i + j - 1] = d[j]

RECURSIVE SplitFrom(_, _, _, _)
SplitFrom(s, d, i, cur) ==
    IF i > Len(s) THEN <<cur>>
    ELSE IF MatchAt(s, d, i)
         THEN <<cur>> \o SplitFrom(s, d, i + Len(d), <<>>)
         ELSE SplitFrom(s, d, i + 1, Append(cur, s[i]))

split(s, d) == SplitFrom(s, d, 1, <<>>)

RECURSIVE join(_, _)
join(parts, d) ==
    IF Len(parts) = 0 THEN <<>>
    ELSE IF Len(parts) = 1 THEN parts[1]
    ELSE parts[1] \o d \o join(Tail(parts), d)

includes(s, tok) == \E i \in 1..Len(s) : s[i] = tok

----------------------------------------------------------------------------
(* Path helpers *)

normalizePath(id) ==
    LET cleanId == split(id, <<"?">>)[1]
    IN  join(split(cleanId, <<pathSep>>), <<"/">>)

getShortId(id) ==
    LET normalizedId == normalizePath(id)
        bySrc == split(normalizedId, <<"/", "src", "/">>)
        byDep == split(normalizedId, <<"/", "node_modules", "/">>)
    IN  IF Len(bySrc) >= 2 /\ bySrc[2] # <<>> THEN bySrc[2]
        ELSE IF Len(byDep) >= 2 /\ byDep[2] # <<>> THEN byDep[2]
        ELSE normalizedId

----------------------------------------------------------------------------
(* Map<string, number>.  startTimes is never iterated, so it is a function  *)
(* on its key set; moduleTransformTimes is iterated by closeBundle, so it  *)
(* is the sequence of its entries in insertion order.                      *)

MapSet(m, k, v) == [x \in (DOMAIN m) \cup {k} |-> IF x = k THEN v ELSE m[x]]
MapDelete(m, k) == [x \in (DOMAIN m) \ {k} |-> m[x]]
EmptyMap == [x \in {} |-> 0]

Keys(entries) == {entries[i].id : i \in 1..Len(entries)}
Get(entries, k) == entries[CHOOSE i \in 1..Len(entries) : entries[i].id = k].time
\* Map.prototype.set: an existing key keeps its position
EntrySet(entries, k, v) ==
    IF k \in Keys(entries)
    THEN [i \in 1..Len(entries) |->
             IF entries[i].id = k THEN [id |-> k, time |-> v] ELSE entries[i]]
    ELSE Append(entries, [id |-> k, time |-> v])

\* IEEE-754 division: a zero divisor gives NaN or Infinity, never an error
Div(a, b) ==
    IF b = 0 THEN [finite |-> FALSE, val |-> 0]
    ELSE [finite |-> TRUE, val |-> a \div b]
Mul(n, q) == [finite |-> q.finite, val |-> n * q.val]

----------------------------------------------------------------------------
Init ==
    /\ pathSep \in {"/", "\\"}
    /\ clock = 0
    /\ moduleTransformTimes = <<>>
    /\ slowModules = <<>>
    /\ startTimes = EmptyMap
    /\ processedIds = {}
    /\ totalModules = 0
    /\ processedModules = 0
    /\ buildStartTime = 0
    /\ last = [op |-> "init"]
    /\ out = <<>>

\* buildStart that forgets startTimes.clear()
buildStartKeepsStarts(t) ==
    /\ t >= clock
    /\ clock' = t
    /\ totalModules' = 0
    /\ processedModules' = 0
    /\ moduleTransformTimes' = <<>>
    /\ slowModules' = <<>>
    /\ processedIds' = {}
    /\ buildStartTime' = t
    /\ last' = [op |-> "buildStart", returned |-> "undefined",
                caught |-> FALSE]
    /\ out' = <<[kind |-> "started"]>>
    /\ UNCHANGED <<pathSep, startTimes>>

\* buildStart that forgets `slowModules.length = 0`
buildStartKeepsSlow(t) ==
    /\ t >= clock
    /\ clock' = t
    /\ totalModules' = 0
    /\ processedModules' = 0
    /\ moduleTransformTimes' = <<>>
    /\ startTimes' = EmptyMap
    /\ processedIds' = {}
    /\ buildStartTime' = t
    /\ last' = [op |-> "buildStart", returned |-> "undefined",
                caught |-> FALSE]
    /\ out' = <<[kind |-> "started"]>>
    /\ UNCHANGED <<pathSep, slowModules>>

buildStart(t) ==
    /\ t >= clock
    /\ clock' = t
    /\ totalModules' = 0
    /\ processedModules' = 0
    /\ moduleTransformTimes' = <<>>
    /\ slowModules' = <<>>
    /\ startTimes' = EmptyMap
    /\ processedIds' = {}
    /\ buildStartTime' = t
    /\ last' = [op |-> "buildStart", returned |-> "undefined",
                caught |-> FALSE]
    /\ out' = <<[kind |-> "started"]>>
    /\ UNCHANGED pathSep

\* transform that counts every call, not only the first per key
transformCountsEveryCall(id, t) ==
    LET normalizedId == normalizePath(id)
        isNew == normalizedId \notin processedIds
        total == totalModules + 1
    IN  /\ t >= clock
        /\ clock' = t
        /\ processedIds' = processedIds \cup {normalizedId}
        /\ totalModules' = total
        /\ out' = IF isNew /\ ~includes(normalizedId, "node_modules")
                  THEN <<[kind |-> "total", total |-> total]>>
                  ELSE <<>>
        /\ startTimes' = MapSet(startTimes, normalizedId, t)
        /\ last' = [op |-> "transform", id |-> id, key |-> normalizedId, t |-> t,
                    returned |-> "null", caught |-> FALSE]
        /\ UNCHANGED <<pathSep, moduleTransformTimes, slowModules,
                       processedModules, buildStartTime>>

\* transform that counts a new unit but forgets processedIds.add
transformForgetsKnown(id, t) ==
    LET normalizedId == normalizePath(id)
        isNew == normalizedId \notin processedIds
        total == IF isNew THEN totalModules + 1 ELSE totalModules
    IN  /\ t >= clock
        /\ clock' = t
        /\ totalModules' = total
        /\ out' = IF isNew /\ ~includes(normalizedId, "node_modules")
                  THEN <<[kind |-> "total", total |-> total]>>
                  ELSE <<>>
        /\ startTimes' = MapSet(startTimes, normalizedId, t)
        /\ last' = [op |-> "transform", id |-> id, key |-> normalizedId, t |-> t,
                    returned |-> "null", caught |-> FALSE]
        /\ UNCHANGED <<pathSep, moduleTransformTimes, slowModules,
                       processedIds, processedModules, buildStartTime>>

\* transform that keeps the start time of a key already pending
transformKeepsFirstStart(id, t) ==
    LET normalizedId == normalizePath(id)
        isNew == normalizedId \notin processedIds
        total == IF isNew THEN totalModules + 1 ELSE totalModules
    IN  /\ t >= clock
        /\ clock' = t
        /\ processedIds' = processedIds \cup {normalizedId}
        /\ totalModules' = total
        /\ out' = IF isNew /\ ~includes(normalizedId, "node_modules")
                  THEN <<[kind |-> "total", total |-> total]>>
                  ELSE <<>>
        /\ startTimes' = IF normalizedId \in DOMAIN startTimes
                         THEN startTimes
                         ELSE MapSet(startTimes, normalizedId, t)
        /\ last' = [op |-> "transform", id |-> id, key |-> normalizedId, t |-> t,
                    returned |-> "null", caught |-> FALSE]
        /\ UNCHANGED <<pathSep, moduleTransformTimes, slowModules,
                       processedModules, buildStartTime>>

transform(id, t) ==
    LET normalizedId == normalizePath(id)
        isNew == normalizedId \notin processedIds
        total == IF isNew THEN totalModules + 1 ELSE totalModules
    IN  /\ t >= clock
        /\ clock' = t
        /\ processedIds' = processedIds \cup {normalizedId}
        /\ totalModules' = total
        /\ out' = IF isNew /\ ~includes(normalizedId, "node_modules")
                  THEN <<[kind |-> "total", total |-> total]>>
                  ELSE <<>>
        /\ startTimes' = MapSet(startTimes, normalizedId, t)
        /\ last' = [op |-> "transform", id |-> id, key |-> normalizedId, t |-> t,
                    returned |-> "null", caught |-> FALSE]
        /\ UNCHANGED <<pathSep, moduleTransformTimes, slowModules,
                       processedModules, buildStartTime>>

\* `!startTime`: undefined (no entry) and 0 are both falsy
NoStartTime(key) == key \notin DOMAIN startTimes \/ startTimes[key] = 0

\* progress display on the cadence only
ProgressDueOnCadenceOnly(processed, total) ==
    processed % ProgressCadence = 0

\* the condition of the progress display (line 90)
ProgressDue(processed, total) ==
    processed % ProgressCadence = 0 \/ processed = total

ProgressLine(processed, total, now, size, slow) ==
    LET elapsedTime == now - buildStartTime
        avgTimePerModule == Div(elapsedTime, processed)
        remainingModules == total - processed
    IN  [kind |-> "progress",
         progress |-> Div(processed * 100, total),
         processed |-> processed,
         total |-> total,
         elapsedTime |-> elapsedTime,
         estimatedRemainingTime |-> Mul(remainingModules, avgTimePerModule),
         size |-> size,
         slow |-> slow]

\* `if (!startTime) return;` taken: nothing is read, written or logged
returnEarlyCounted(id, normalizedId) ==
    /\ last' = [op |-> "moduleParsed", id |-> id, key |-> normalizedId,
                recorded |-> FALSE, returned |-> "undefined",
                caught |-> FALSE]
    /\ out' = <<>>
    /\ processedModules' = processedModules + 1
    /\ UNCHANGED <<pathSep, clock, moduleTransformTimes, slowModules,
                   startTimes, processedIds, totalModules, buildStartTime>>

returnEarly(id, normalizedId) ==
    /\ last' = [op |-> "moduleParsed", id |-> id, key |-> normalizedId,
                recorded |-> FALSE, returned |-> "undefined",
                caught |-> FALSE]
    /\ out' = <<>>
    /\ UNCHANGED <<pathSep, clock, registry>>

\* moduleParsed that removes a key's outlier entries when its new duration
\* is not above the threshold
moduleParsedDropsStaleOutlier(id, t1, t2) ==
    LET normalizedId == normalizePath(id)
    IN  IF NoStartTime(normalizedId)
        THEN returnEarly(id, normalizedId)
        ELSE LET startTime == startTimes[normalizedId]
                 duration == t1 - startTime
                 times == EntrySet(moduleTransformTimes, normalizedId, duration)
                 processed == processedModules + 1
                 isSlow == duration > SlowThreshold
                 slow == IF isSlow
                         THEN Append(slowModules,
                                     [id |-> normalizedId, time |-> duration])
                         ELSE LET others(e) == e.id # normalizedId
                              IN  SelectSeq(slowModules, others)
                 due == ProgressDue(processed, totalModules)
             IN  /\ t1 >= clock
                 /\ t2 >= t1
                 /\ clock' = IF due THEN t2 ELSE t1
                 /\ moduleTransformTimes' = times
                 /\ processedModules' = processed
                 /\ slowModules' = slow
                 /\ out' = (IF isSlow
                            THEN <<[kind |-> "slow",
                                    name |-> getShortId(normalizedId),
                                    time |-> duration]>>
                            ELSE <<>>)
                           \o
                           (IF due
                            THEN <<ProgressLine(processed, totalModules, t2,
                                                Len(times), Len(slow))>>
                            ELSE <<>>)
                 /\ startTimes' = MapDelete(startTimes, normalizedId)
                 /\ last' = [op |-> "moduleParsed", id |-> id,
                             key |-> normalizedId, recorded |-> TRUE,
                             t |-> t1, startTime |-> startTime,
                             returned |-> "undefined", caught |-> FALSE]
                 /\ UNCHANGED <<pathSep, processedIds, totalModules,
                                buildStartTime>>

moduleParsed(id, t1, t2) ==
    LET normalizedId == normalizePath(id)
    IN  IF NoStartTime(normalizedId)
        THEN returnEarly(id, normalizedId)
        ELSE LET startTime == startTimes[normalizedId]
                 duration == t1 - startTime
                 times == EntrySet(moduleTransformTimes, normalizedId, duration)
                 processed == processedModules + 1
                 isSlow == duration > SlowThreshold
                 slow == IF isSlow
                         THEN Append(slowModules,
                                     [id |-> normalizedId, time |-> duration])
                         ELSE slowModules
                 due == ProgressDue(processed, totalModules)
             IN  /\ t1 >= clock
                 /\ t2 >= t1
                 /\ clock' = IF due THEN t2 ELSE t1
                 /\ moduleTransformTimes' = times
                 /\ processedModules' = processed
                 /\ slowModules' = slow
                 /\ out' = (IF isSlow
                            THEN <<[kind |-> "slow",
                                    name |-> getShortId(normalizedId),
                                    time |-> duration]>>
                            ELSE <<>>)
                           \o
                           (IF due
                            THEN <<ProgressLine(processed, totalModules, t2,
                                                Len(times), Len(slow))>>
                            ELSE <<>>)
                 /\ startTimes' = MapDelete(startTimes, normalizedId)
                 /\ last' = [op |-> "moduleParsed", id |-> id,
                             key |-> normalizedId, recorded |-> TRUE,
                             t |-> t1, startTime |-> startTime,
                             returned |-> "undefined", caught |-> FALSE]
                 /\ UNCHANGED <<pathSep, processedIds, totalModules,
                                buildStartTime>>

\* Array.prototype.sort((a, b) => b.time - a.time): stable, descending
\* the comparator the wrong way round: (a, b) => a.time - b.time
RECURSIVE InsertByTimeAscending(_, _)
InsertByTimeAscending(sorted, e) ==
    IF sorted = <<>> THEN <<e>>
    ELSE IF Head(sorted).time <= e.time
         THEN <<Head(sorted)>> \o InsertByTimeAscending(Tail(sorted), e)
         ELSE <<e>> \o sorted

RECURSIVE InsertByTime(_, _)
InsertByTime(sorted, e) ==
    IF sorted = <<>> THEN <<e>>
    ELSE IF Head(sorted).time >= e.time
         THEN <<Head(sorted)>> \o InsertByTime(Tail(sorted), e)
         ELSE <<e>> \o sorted

RECURSIVE sortByTimeDesc(_)
sortByTimeDesc(arr) ==
    IF arr = <<>> THEN <<>>
    ELSE InsertByTime(sortByTimeDesc(SubSeq(arr, 1, Len(arr) - 1)),
                      arr[Len(arr)])

\* Array.prototype.slice(0, n)
slice(arr, n) == SubSeq(arr, 1, IF Len(arr) < n THEN Len(arr) ELSE n)

\* id.split('/node_modules/')[1]?.split('/')[0] || '项目源码'
dirOf(id) ==
    LET parts == split(id, <<"/", "node_modules", "/">>)
    IN  IF Len(parts) < 2 THEN ProjectSourceLabel
        ELSE LET first == split(parts[2], <<"/">>)[1]
             IN  IF first = <<>> THEN ProjectSourceLabel ELSE first

\* the forEach over moduleTransformTimes that fills dirStats
RECURSIVE dirStatsOf(_)
dirStatsOf(entries) ==
    IF entries = <<>> THEN <<>>
    ELSE LET before == dirStatsOf(SubSeq(entries, 1, Len(entries) - 1))
             e == entries[Len(entries)]
             dir == dirOf(e.id)
         IN  IF \E i \in 1..Len(before) : before[i].dir = dir
             THEN [i \in 1..Len(before) |->
                      IF before[i].dir = dir
                      THEN [dir |-> dir, count |-> before[i].count + 1,
                            time |-> before[i].time + e.time]
                      ELSE before[i]]
             ELSE Append(before, [dir |-> dir, count |-> 1, time |-> e.time])

\* Array.from(values()).reduce((a, b) => a + b, 0)
RECURSIVE sumTimes(_)
sumTimes(entries) ==
    IF entries = <<>> THEN 0
    ELSE sumTimes(SubSeq(entries, 1, Len(entries) - 1)) + entries[Len(entries)].time

\* the early return of closeBundle keyed on the recorded durations
NoDurationCollected == moduleTransformTimes = <<>>

\* `slowModules.length === 0`
NoDataCollected == slowModules = <<>>

closeBundle ==
    IF NoDataCollected
    THEN /\ out' = <<[kind |-> "header"], [kind |-> "nodata"]>>
         /\ last' = [op |-> "closeBundle", returned |-> "undefined",
                     caught |-> FALSE]
         /\ UNCHANGED <<pathSep, clock, registry>>
    ELSE LET sorted == sortByTimeDesc(slowModules)
             top == slice(sorted, TopN)
             totalTime == sumTimes(moduleTransformTimes)
         IN  /\ slowModules' = sorted
             /\ out' = <<[kind |-> "header"],
                         [kind |-> "slowest",
                          list |-> [i \in 1..Len(top) |->
                                       [time |-> top[i].time,
                                        name |-> getShortId(top[i].id)]]],
                         [kind |-> "dirStats",
                          list |-> slice(sortByTimeDesc(
                                             dirStatsOf(moduleTransformTimes)),
                                         TopN)],
                         [kind |-> "overall",
                          total |-> totalModules,
                          slow |-> Len(sorted),
                          totalTime |-> totalTime,
                          average |-> Div(totalTime, totalModules)]>>
             /\ last' = [op |-> "closeBundle", returned |-> "undefined",
                     caught |-> FALSE]
             /\ UNCHANGED <<pathSep, clock, moduleTransformTimes, startTimes,
                            processedIds, totalModules, processedModules,
                            buildStartTime>>

----------------------------------------------------------------------------
(* performance.now() raises: the hook's statements before the call have    *)
(* run, the rest of the try block is skipped, the catch block logs.        *)

\* line 44 raises: everything is cleared, buildStartTime keeps its value
buildStartThrows ==
    /\ totalModules' = 0
    /\ processedModules' = 0
    /\ moduleTransformTimes' = <<>>
    /\ slowModules' = <<>>
    /\ startTimes' = EmptyMap
    /\ processedIds' = {}
    /\ last' = [op |-> "buildStart", returned |-> "undefined",
                caught |-> TRUE]
    /\ out' = <<[kind |-> "started"], [kind |-> "error"]>>
    /\ UNCHANGED <<pathSep, clock, buildStartTime>>

\* transform without its try/catch: the failure reaches the host
transformThrowsUncaught(id) ==
    LET normalizedId == normalizePath(id)
        isNew == normalizedId \notin processedIds
        total == IF isNew THEN totalModules + 1 ELSE totalModules
    IN  /\ processedIds' = processedIds \cup {normalizedId}
        /\ totalModules' = total
        /\ out' = IF isNew /\ ~includes(normalizedId, "node_modules")
                  THEN <<[kind |-> "total", total |-> total]>>
                  ELSE <<>>
        /\ last' = [op |-> "transform", id |-> id, key |-> normalizedId,
                    returned |-> "throws", caught |-> FALSE]
        /\ UNCHANGED <<pathSep, clock, moduleTransformTimes, slowModules,
                       startTimes, processedModules, buildStartTime>>

\* line 65 raises: the unit is already counted, no start time is stored
transformThrows(id) ==
    LET normalizedId == normalizePath(id)
        isNew == normalizedId \notin processedIds
        total == IF isNew THEN totalModules + 1 ELSE totalModules
    IN  /\ processedIds' = processedIds \cup {normalizedId}
        /\ totalModules' = total
        /\ out' = (IF isNew /\ ~includes(normalizedId, "node_modules")
                   THEN <<[kind |-> "total", total |-> total]>>
                   ELSE <<>>)
                  \o <<[kind |-> "error"]>>
        /\ last' = [op |-> "transform", id |-> id, key |-> normalizedId,
                    returned |-> "null", caught |-> TRUE]
        /\ UNCHANGED <<pathSep, clock, moduleTransformTimes, slowModules,
                       startTimes, processedModules, buildStartTime>>

\* line 79 raises: nothing has been written yet
moduleParsedThrowsAtDuration(id) ==
    LET normalizedId == normalizePath(id)
    IN  /\ ~NoStartTime(normalizedId)
        /\ last' = [op |-> "moduleParsed", id |-> id, key |-> normalizedId,
                    recorded |-> FALSE, returned |-> "undefined",
                    caught |-> TRUE]
        /\ out' = <<[kind |-> "error"]>>
        /\ UNCHANGED <<pathSep, clock, registry>>

\* line 92 raises: the duration is recorded and counted, the start time is
\* not deleted
moduleParsedThrowsAtProgress(id, t1) ==
    LET normalizedId == normalizePath(id)
    IN  /\ ~NoStartTime(normalizedId)
        /\ ProgressDue(processedModules + 1, totalModules)
        /\ t1 >= clock
        /\ LET startTime == startTimes[normalizedId]
               duration == t1 - startTime
               isSlow == duration > SlowThreshold
           IN  /\ clock' = t1
               /\ moduleTransformTimes' =
                     EntrySet(moduleTransformTimes, normalizedId, duration)
               /\ processedModules' = processedModules + 1
               /\ slowModules' =
                     IF isSlow
                     THEN Append(slowModules,
                                 [id |-> normalizedId, time |-> duration])
                     ELSE slowModules
               /\ out' = (IF isSlow
                          THEN <<[kind |-> "slow",
                                  name |-> getShortId(normalizedId),
                                  time |-> duration]>>
                          ELSE <<>>)
                         \o <<[kind |-> "error"]>>
               /\ last' = [op |-> "moduleParsed", id |-> id,
                           key |-> normalizedId, recorded |-> TRUE,
                           t |-> t1, startTime |-> startTime,
                           returned |-> "undefined", caught |-> TRUE]
               /\ UNCHANGED <<pathSep, startTimes, processedIds, totalModules,
                              buildStartTime>>

----------------------------------------------------------------------------
(* The host calls the hooks one at a time, in any order, with any id. *)

Next ==
    \/ \E t \in Times : buildStart(t)
    \/ \E id \in RawIds, t \in Times : transform(id, t)
    \/ \E id \in RawIds, t1 \in Times, t2 \in Times :
           processedModules < MaxProcessed /\ moduleParsed(id, t1, t2)
    \/ closeBundle

Spec == Init /\ [][Next]_vars

(* A build that never has a slow module and has many completions: the     *)
(* same hooks, fewer ids and timestamps, a larger cap on completedCount.   *)

NextProgress ==
    \/ \E t \in ProgressTimes : buildStart(t)
    \/ \E id \in ProgressIds, t \in ProgressTimes : transform(id, t)
    \/ \E id \in ProgressIds, t1 \in ProgressTimes, t2 \in ProgressTimes :
           processedModules < MaxProgressProcessed /\ moduleParsed(id, t1, t2)
    \/ closeBundle

SpecProgress == Init /\ [][NextProgress]_vars

(* A build in which one unit is transformed again and again and is slow     *)
(* more than TopN times: the build starts at 250, every transform is       *)
(* requested at the time of the last clock reading, and every completion   *)
(* comes 250 or 500 ms after it.                                           *)

NextTop ==
    \/ \E t \in TopBuildStarts : buildStart(t)
    \/ \E id \in TopIds, t \in TopTimes \cap {clock} : transform(id, t)
    \/ \E id \in TopIds, t1 \in {t \in TopTimes : t - clock \in TopDurations} :
           processedModules < MaxTopProcessed /\ moduleParsed(id, t1, t1)
    \/ closeBundle

SpecTop == Init /\ [][NextTop]_vars

(* The same hooks on a host whose timestamp source may fail. *)

NextFail ==
    \/ \E t \in FailTimes : buildStart(t)
    \/ \E id \in FailIds, t \in FailTimes : transform(id, t)
    \/ \E id \in FailIds, t1 \in FailTimes, t2 \in FailTimes :
           processedModules < MaxProcessed /\ moduleParsed(id, t1, t2)
    \/ closeBundle
    \/ buildStartThrows
    \/ \E id \in FailIds : transformThrows(id)
    \/ \E id \in FailIds : moduleParsedThrowsAtDuration(id)
    \/ \E id \in FailIds, t1 \in FailTimes :
           processedModules < MaxProcessed
           /\ moduleParsedThrowsAtProgress(id, t1)

SpecFail == Init /\ [][NextFail]_vars

----------------------------------------------------------------------------
(* Properties *)

HasLine(kind) == \E i \in 1..Len(out) : out[i].kind = kind
Line(kind) == out[CHOOSE i \in 1..Len(out) : out[i].kind = kind]
IsSlowListed(k) == \E i \in 1..Len(slowModules) : slowModules[i].id = k

\* C1: completedCount (processedModules) equals the number of keys of
\* completedDurations (moduleTransformTimes.size) in every reachable state.
C1_CountEqualsSize == processedModules = Len(moduleTransformTimes)

\* C2: a completion of key k at time t1 whose start is pending with
\* timestamp t0 (t0 = 0 included) stores completedDurations[k] = t1 - t0,
\* removes k from pendingStarts and increments completedCount by 1.
C2_CompleteRecordsDuration ==
    [][(last'.op = "moduleParsed" /\ last'.key \in DOMAIN startTimes)
       => /\ last'.recorded
          /\ last'.key \in Keys(moduleTransformTimes')
          /\ Get(moduleTransformTimes', last'.key)
                = last'.t - startTimes[last'.key]
          /\ last'.key \notin DOMAIN startTimes'
          /\ processedModules' = processedModules + 1]_vars

\* C3: onUnitComplete for a key with no pending start leaves every map,
\* list and counter of the registry unchanged and emits nothing.
C3_CompleteWithoutStartIsNoOp ==
    [][(last'.op = "moduleParsed" /\ last'.key \notin DOMAIN startTimes)
       => UNCHANGED registry /\ out' = <<>>]_vars

\* C3 witness: a completion arrived for a key that was completed before and
\* has not been started since.
C3_Witness ==
    /\ last.op = "moduleParsed"
    /\ ~last.recorded
    /\ last.key \notin DOMAIN startTimes
    /\ last.key \in Keys(moduleTransformTimes)

\* C4: totalUnitsSeen (totalModules) equals the number of keys in knownUnits
\* (processedIds): starts that normalize to one key count once.
C4_TotalEqualsKnownUnits == totalModules = Cardinality(processedIds)

\* C4 witness: a start with a query suffix arrived for a key already known
\* (no "new unit" line was logged) and the count stayed at 1.
C4_Witness ==
    /\ last.op = "transform"
    /\ last.id = SrcCQuery
    /\ last.key = SrcC
    /\ out = <<>>
    /\ totalModules = 1

\* C5: a key with a recorded duration d is in outliers if and only if
\* d > 200.
C5_OutlierIffAboveThreshold ==
    \A k \in Keys(moduleTransformTimes) :
        IsSlowListed(k) <=> Get(moduleTransformTimes, k) > SlowThreshold

\* C6 (as stated): while distinct units complete once each with no slow
\* unit, a progress snapshot is emitted only at completedCount 100 and 150.
C6_SnapshotOnlyAt100And150 ==
    (/\ last.op = "moduleParsed"
     /\ HasLine("progress")
     /\ slowModules = <<>>
     /\ processedModules = Len(moduleTransformTimes))
    => processedModules \in {100, 150}

\* C6 (amended): a completion that records a duration emits a progress
\* snapshot if and only if the resulting completedCount is a multiple of
\* 100 or equals totalUnitsSeen at that moment.
C6_SnapshotIffCadenceOrCaughtUp ==
    (last.op = "moduleParsed" /\ last.recorded)
    => (HasLine("progress")
        <=> (processedModules % 100 = 0 \/ processedModules = totalModules))

\* C6 witness: a snapshot emitted at the 100th completion while the build
\* knows fewer units than that.
C6_Witness ==
    /\ last.op = "moduleParsed"
    /\ last.recorded
    /\ HasLine("progress")
    /\ processedModules = 100
    /\ totalModules < 100
    /\ slowModules = <<>>

\* C7: the final report leaves the registry, the order of outliers
\* included, exactly as it was.
C7_ReportIsReadOnly ==
    [][last'.op = "closeBundle" => UNCHANGED registry]_vars

BucketKeys(d) == {k \in Keys(moduleTransformTimes) : dirOf(k) = d}

RECURSIVE SumOf(_)
SumOf(S) ==
    IF S = {} THEN 0
    ELSE LET k == CHOOSE x \in S : TRUE
         IN  Get(moduleTransformTimes, k) + SumOf(S \ {k})

\* C8: the final report's bucketed totals contain, for every bucket of
\* completedDurations, its number of entries and the sum of their durations.
C8_BucketTotalsReported ==
    last.op = "closeBundle"
    => \A d \in {dirOf(k) : k \in Keys(moduleTransformTimes)} :
          /\ HasLine("dirStats")
          /\ \E i \in 1..Len(Line("dirStats").list) :
                Line("dirStats").list[i]
                   = [dir |-> d, count |-> Cardinality(BucketKeys(d)),
                      time |-> SumOf(BucketKeys(d))]

\* C9: the final report with empty outliers prints only the "no data
\* collected" output (after the report banner) and no aggregate section.
C9_EmptyOutliersReportNoData ==
    (last.op = "closeBundle" /\ slowModules = <<>>)
    => out = <<[kind |-> "header"], [kind |-> "nodata"]>>

\* C9 witness: the report ran with no outliers although durations had been
\* recorded.
C9_Witness ==
    /\ last.op = "closeBundle"
    /\ slowModules = <<>>
    /\ moduleTransformTimes # <<>>
    /\ HasLine("nodata")

\* C10: a progress snapshot is computed only with totalUnitsSeen > 0 and
\* completedCount > 0, the overall average only with totalUnitsSeen > 0, so
\* every reported quotient is finite.
C10_NoDivisionByZero ==
    /\ HasLine("progress")
       => /\ totalModules > 0
          /\ processedModules > 0
          /\ Line("progress").progress.finite
          /\ Line("progress").estimatedRemainingTime.finite
    /\ HasLine("overall")
       => /\ totalModules > 0
          /\ Line("overall").average.finite

\* C10 witness: a completion that emitted a progress snapshot.
C10_Witness ==
    /\ last.op = "moduleParsed"
    /\ HasLine("progress")
    /\ Line("progress").total = totalModules
    /\ Line("progress").processed = processedModules

\* C10, the other quotient: a final report that printed the overall average.
C10_ReportWitness == last.op = "closeBundle" /\ HasLine("overall")

\* C11: every hook invocation, also one in which the timestamp source
\* raised, returns its safe default (null for transform, nothing for the
\* others) and a caught failure is logged; no invocation ends in a
\* propagated error.
C11_HooksNeverPropagate ==
    last.op # "init"
    => /\ last.returned = (IF last.op = "transform" THEN "null"
                           ELSE "undefined")
       /\ last.caught => (out # <<>> /\ out[Len(out)].kind = "error")

\* C11 witness: a transform whose timestamp read raised, caught and logged.
C11_Witness ==
    /\ last.op = "transform"
    /\ last.caught
    /\ last.returned = "null"
    /\ HasLine("error")

\* C12: every key of completedDurations (moduleTransformTimes) is a member
\* of knownUnits (processedIds).
C12_CompletedKeysAreKnown == Keys(moduleTransformTimes) \subseteq processedIds

\* C12 witness: two units have a recorded duration.
C12_Witness ==
    /\ Len(moduleTransformTimes) = 2
    /\ last.op = "moduleParsed"
    /\ last.recorded
    /\ last.key \in processedIds

\* C13: a key present in pendingStarts (startTimes) has no duration
\* recorded in completedDurations (moduleTransformTimes).
C13_PendingHasNoDuration ==
    DOMAIN startTimes \cap Keys(moduleTransformTimes) = {}

\* C14: reset() leaves knownUnits, pendingStarts, completedDurations and
\* outliers empty, both counters 0 and buildStartTimestamp = now(),
\* whatever the state it is called in (a state just reset included).
C14_ResetClearsEverything ==
    [][last'.op = "buildStart"
       => /\ processedIds' = {}
          /\ startTimes' = EmptyMap
          /\ moduleTransformTimes' = <<>>
          /\ slowModules' = <<>>
          /\ totalModules' = 0
          /\ processedModules' = 0
          /\ buildStartTime' = clock']_vars

\* C14 witness: a reset at a later time than the start of the run.
C14_Witness ==
    /\ last.op = "buildStart"
    /\ buildStartTime = 500
    /\ processedIds = {}
    /\ slowModules = <<>>

\* C15: a start for a key that is already pending overwrites its start
\* timestamp and changes nothing else, and the duration a completion
\* records is measured from the stored, most recent, start.
C15_DuplicateStartResetsClock ==
    [][/\ (last'.op = "transform" /\ last'.key \in DOMAIN startTimes)
          => /\ startTimes'[last'.key] = last'.t
             /\ UNCHANGED <<totalModules, processedIds, moduleTransformTimes,
                            processedModules, slowModules>>
       /\ (last'.op = "moduleParsed" /\ last'.recorded)
          => Get(moduleTransformTimes', last'.key)
                = last'.t - startTimes[last'.key]]_vars

\* C15 witness: a start at t=250 for a key that was already known (no
\* "new unit" line) in a build with no completion yet, so it was pending.
C15_Witness ==
    /\ last.op = "transform"
    /\ last.key = SrcC
    /\ out = <<>>
    /\ processedModules = 0
    /\ totalModules = 1
    /\ last.t = 250
    /\ startTimes[SrcC] = 250

\* C16: a start or a completion only grows the history: knownUnits before
\* the step is a subset of knownUnits after it and outliers before the step
\* is a prefix of outliers after it.
C16_HistoryOnlyGrows ==
    [][last'.op \in {"transform", "moduleParsed"}
       => /\ processedIds \subseteq processedIds'
          /\ Len(slowModules) <= Len(slowModules')
          /\ SubSeq(slowModules', 1, Len(slowModules)) = slowModules]_vars

\* C16 witness: a completion appended a second outlier.
C16_Witness ==
    /\ last.op = "moduleParsed"
    /\ last.recorded
    /\ Len(slowModules) = 2
    /\ slowModules[2] = [id |-> last.key, time |-> last.t - last.startTime]
    /\ Cardinality(processedIds) = 2

\* the unit a raw id denotes: query suffix stripped, either separator style
Canon(id) ==
    LET cleanId == split(id, <<"?">>)[1]
    IN  [i \in 1..Len(cleanId) |->
            IF cleanId[i] = "\\" THEN "/" ELSE cleanId[i]]

\* C17: onUnitStart(r1) followed by onUnitComplete(r2), where r1 and r2
\* differ only by a query suffix or the separator style, is not a no-op: the
\* completion records a duration under the shared key and increments
\* completedCount.
C17_CompletionMatchesByCanonicalKey ==
    [][(/\ last.op = "transform"
        /\ last'.op = "moduleParsed"
        /\ last.id # last'.id
        /\ Canon(last.id) = Canon(last'.id))
       => /\ last'.recorded
          /\ last'.key = last.key
          /\ last'.key \in Keys(moduleTransformTimes')
          /\ processedModules' = processedModules + 1]_vars

\* C19: completedCount <= totalUnitsSeen in every state, so a progress
\* snapshot never shows more than 100% nor a negative remaining time.
C19_CompletedAtMostTotal ==
    /\ processedModules <= totalModules
    /\ HasLine("progress")
       => /\ Line("progress").progress.val <= 100
          /\ Line("progress").estimatedRemainingTime.val >= 0

TimesOf(arr) == {arr[i].time : i \in 1..Len(arr)}
CountAt(arr, v) == Cardinality({i \in 1..Len(arr) : arr[i].time = v})

\* C18: with outliers non-empty the top-N section lists min(10, |outliers|)
\* entries of outliers in non-increasing order of duration, and every
\* listed duration is >= every outlier duration that is not listed.
C18_TopListIsTheSlowest ==
    (last.op = "closeBundle" /\ slowModules # <<>>)
    => /\ HasLine("slowest")
       /\ LET list == Line("slowest").list
              n == Len(slowModules)
          IN  /\ Len(list) = (IF n < 10 THEN n ELSE 10)
              /\ \A i \in 1..(Len(list) - 1) : list[i].time >= list[i + 1].time
              /\ \A v \in TimesOf(list) :
                    CountAt(list, v) <= CountAt(slowModules, v)
              /\ \A v \in TimesOf(slowModules) :
                    CountAt(list, v) < CountAt(slowModules, v)
                    => \A i \in 1..Len(list) : list[i].time >= v

\* C18 witness: a report over eleven outliers of different durations lists
\* ten of them.
C18_Witness ==
    /\ last.op = "closeBundle"
    /\ Len(slowModules) = 11
    /\ Cardinality(TimesOf(slowModules)) >= 2
    /\ HasLine("slowest")
    /\ Len(Line("slowest").list) = 10

\* C20: every key of knownUnits is in pendingStarts or in
\* completedDurations, also after a hook was cut short by a caught failure
\* of the timestamp source.
C20_KnownUnitsAccountedFor ==
    processedIds = DOMAIN startTimes \cup Keys(moduleTransformTimes)

====
